---- MODULE Spec2Model ----
(***************************************************************************)
(* Casmurbot (src/bot.js): a grammY Telegram bot.  The model covers the    *)
(* middleware chain built by the bot.command / bot.hears / bot.on          *)
(* registrations and the permission-gated kick / ban / unban pipeline      *)
(* (handleKickBanUnban, restrictUser, isMe, isAdmin, canRestrict,          *)
(* applyAction).                                                           *)
(*                                                                         *)
(* A step of a handler is the synchronous code between two transport       *)
(* calls: pc names the transport call an update's handler is suspended on. *)
(* A transport call is logged when it is issued (state "pending") and its  *)
(* entry is completed when the call returns ("ok") or rejects ("failed").  *)
(* The answers of the Bot API (a chat member record, success or failure    *)
(* of a call) are inputs chosen by the environment at every call.          *)
(***************************************************************************)
EXTENDS Naturals, Sequences, FiniteSets

\* ------------------------------------------------------------------ bounds
MaxTextLen == 2     \* words in a message text
MaxExtraSegments == 1   \* path segments that follow the id in a URL
NumProcs == 2       \* update-handling slots of the polling loop

\* ----------------------------------------------------------------- values
Procs == 1..NumProcs

\* ctx.me.id and the ids of the other users of the chat
Bot == "bot"
Users == {"u1", "u2"}

\* const commands / the names given to bot.command: "help" is registered
\* (line 135) although the commands array (line 24) does not list it
CommandNames == {"start", "help", "kick", "ban", "unban", "spark"}

\* A text is a sequence of space-separated words, and a word is the sequence
\* of the pieces it is spelled with: a piece is a run of characters that the
\* patterns of lines 30, 31, 202 and 203 can only match as a whole.
CommandToken(name) ==
    CASE name = "start" -> <<"/start">>
      [] name = "help"  -> <<"/help">>
      [] name = "kick"  -> <<"/kick">>
      [] name = "ban"   -> <<"/ban">>
      [] name = "unban" -> <<"/unban">>
      [] name = "spark" -> <<"/spark">>

\* the pieces \d matches and the pieces \w matches
DigitTokens == {"123", "999", "1"}
WordTokens == DigitTokens \cup
    {"alice", "status", "r", "pics", "comments", "s", "abc", "title",
     "photo", "look", "why", "bob", "Hola", "word"}

Schemes == {"https://", "http://"}

\* a status URL of twitter.com / x.com and a thread URL of reddit.com
TwitterUrl(scheme, www, host, handle, id) ==
    <<scheme>> \o www \o <<host, "/">> \o handle \o <<"/", "status", "/">> \o id

RedditUrl(scheme, www, kind, tail) ==
    <<scheme>> \o www \o <<"reddit.com", "/", "r", "/", "pics", "/", kind, "/", "abc">> \o tail

twitterStatusUrl == TwitterUrl("https://", <<>>, "twitter.com", <<"alice">>, <<"123">>)
redditThreadUrl == RedditUrl("https://", <<"www.">>, "comments", <<>>)

BodyTokens == {<<"Hola">>, twitterStatusUrl, redditThreadUrl, <<"word">>}
CommandTokens == {CommandToken(n) : n \in CommandNames}

\* a command token can only open the text (grammY matches a bot_command
\* entity at offset 0)
Texts ==
    UNION {{<<h>> \o t : h \in CommandTokens \cup BodyTokens,
                         t \in [1..n -> BodyTokens]} : n \in 0..(MaxTextLen - 1)}

\* ctx.message.reply_to_message: absent, present without a sender (from is
\* optional in a Bot API Message), or present with the sender's id
NoReply == "no_reply_to_message"
NoFrom == "reply_without_from"
ReplyTargets == {NoReply, NoFrom, Bot} \cup Users

ChatTypes == {"private", "group"}

Messages ==
    [text : Texts, chatType : ChatTypes, from : Users, reply : ReplyTargets]

\* the texts the link handlers are exercised on: a URL, followed in the same
\* word by extra path segments and a query string, alone or between two other
\* words
RECURSIVE PathsOf(_)
PathsOf(n) ==
    IF n = 0 THEN {<<>>}
    ELSE PathsOf(n - 1) \cup
         {e \o <<"/", seg>> : e \in {x \in PathsOf(n - 1) : Len(x) = 2 * (n - 1)},
                              seg \in {"photo", "1"}}

ExtraPaths == PathsOf(MaxExtraSegments)
QueryStrings == {<<>>, <<"?", "s=20">>}
OptionalWww == {<<>>, <<"www.">>}
Handles == {<<"alice">>, <<"status">>}

TwitterUrls ==
    {TwitterUrl(sc, w, host, h, <<"123">>) :
        sc \in Schemes, w \in OptionalWww, host \in {"twitter.com", "x.com"}, h \in Handles}

RedditUrls ==
    {RedditUrl(sc, w, kind, tail) :
        sc \in Schemes, w \in OptionalWww, kind \in {"comments", "s"},
        tail \in {<<>>, <<"/", "title">>, <<"/", "title", "/">>}}

\* a profile URL: no pattern matches it
ProfileUrl == <<"https://", "twitter.com", "/", "alice">>

UrlWords ==
    {u \o e \o q : u \in TwitterUrls \cup RedditUrls \cup {ProfileUrl},
                     e \in ExtraPaths, q \in QueryStrings}

\* words without "/status/<digits>" in them
PlainWords == {<<"look">>, <<"why", "?">>, <<"reddit.com">>}
StatusPath == <<"/", "status", "/", "999">>
OtherSiteUrl == <<"https://", "example.com">> \o StatusPath
BeforeWords == PlainWords \cup {StatusPath, OtherSiteUrl}
AfterWords ==
    {<<"look">>, StatusPath, TwitterUrl("https://", <<>>, "x.com", <<"bob">>, <<"999">>)}

UrlTexts ==
    {b \o <<u>> \o a : b \in {<<>>} \cup {<<w>> : w \in BeforeWords},
                        u \in UrlWords,
                        a \in {<<>>} \cup {<<w>> : w \in AfterWords}}

NoMsg == [text |-> <<>>, chatType |-> "none", from |-> "none", reply |-> NoReply]

\* the ChatMember records getChatMember resolves to; the status names are
\* the Bot API's ("kicked" is the banned status) and only an administrator
\* record carries can_restrict_members
Statuses == {"creator", "administrator", "member", "restricted", "left", "kicked"}
ChatMembers ==
    {[status |-> "administrator", can_restrict_members |-> c] : c \in {"true", "false"}}
    \cup {[status |-> s, can_restrict_members |-> "undefined"] :
              s \in Statuses \ {"administrator"}}
NoMember == [status |-> "none", can_restrict_members |-> "undefined"]

\* the texts of the replies, as the pieces the code concatenates
ReplySelf == <<"I can't restrict myself">>
ReplyNotAdmin == <<"You are not an administrator">>
ReplyCantRestrict == <<"I can't restrict members">>
ReplyError == <<"An error occurred while trying to restrict the user">>
ReplyUsage(action) == <<"You need to reply to a message to ", action, " a user">>
ReplyStart == <<"Hola, soy un bot de telegram">>
ReplyHelp == <<"Available commands: ", "start, kick, ban, unban, spark">>
ReplySparkUsage ==
    <<"Invalid number of arguments. Usage: /spark <crystals> [<tickets>] [<10 draws tickets>]">>
ReplySparkDraws == <<"You have ", "draws", " draws.">>
\* lines 205 and 217: "From @" + ctx.message.from?.username + ":\n" + url
ReplyFrom(username, url) == <<"From @", username, ":\n">> \o url
ReplyUwU == <<"UwU">>

VARIABLES
    banned,     \* the chat: banned[u] iff user u is banned from it
    pc,         \* per slot: where the handling of its update is suspended
    msg,        \* per slot: ctx.message (and ctx.from, ctx.chat) of its update
    idx,        \* per slot: position in the middleware chain
    ran,        \* per slot: the handlers run for the update, in order
    queries,    \* per slot: getChatMember calls
    muts,       \* per slot: banChatMember / unbanChatMember calls
    replies,    \* per slot: ctx.reply calls
    errlog,     \* per slot: console.error lines written
    outcome     \* per slot: how the handler's promise settled

vars == <<banned, pc, msg, idx, ran, queries, muts, replies, errlog, outcome>>

\* ------------------------------------------------------- middleware chain
\* the registrations of lines 127-227, in registration order
Registrations ==
    << [kind |-> "command", name |-> "start"],
       [kind |-> "command", name |-> "help"],
       [kind |-> "command", name |-> "kick"],
       [kind |-> "command", name |-> "ban"],
       [kind |-> "command", name |-> "unban"],
       [kind |-> "command", name |-> "spark"],
       [kind |-> "hears",   name |-> "regexTwitter"],
       [kind |-> "hears",   name |-> "regexReddit"],
       [kind |-> "on",      name |-> "message:text"] >>

\* ctx.message.text as one string: the words joined by spaces
RECURSIVE Pieces(_)
Pieces(text) ==
    IF text = <<>> THEN <<>>
    ELSE IF Len(text) = 1 THEN text[1]
    ELSE text[1] \o <<" ">> \o Pieces(Tail(text))

\* the piece at position i of string t, "" past its end
At(t, i) == IF i \in 1..Len(t) THEN t[i] ELSE ""

\* a greedy \w+ or \d+ at position i: the last position of the longest run
\* of pieces of S that starts at i, i - 1 if there is none
RunEnd(t, i, S) ==
    LET ends == {j \in i..Len(t) : \A k \in i..j : t[k] \in S}
    IN  IF ends = {} THEN i - 1 ELSE CHOOSE j \in ends : \A l \in ends : l <= j

\* where the host follows a scheme at position i: after an optional "www."
HostAt(t, i) == IF At(t, i + 1) = "www." THEN i + 2 ELSE i + 1

\* lines 30 and 202:
\* /https?:\/\/(?:www\.)?(?:twitter\.com|x\.com)\/\w+\/status\/(\d+)/ matches at i
TwitterAt(t, i) ==
    LET h == HostAt(t, i)
        ue == RunEnd(t, h + 2, WordTokens)
    IN  /\ At(t, i) \in Schemes
        /\ At(t, h) \in {"twitter.com", "x.com"}
        /\ At(t, h + 1) = "/"
        /\ ue >= h + 2
        /\ At(t, ue + 1) = "/"
        /\ At(t, ue + 2) = "status"
        /\ At(t, ue + 3) = "/"
        /\ At(t, ue + 4) \in DigitTokens

\* line 31:
\* /https?:\/\/(?:www\.)?reddit\.com\/r\/\w+\/(?:comments|s)\/(\w+)(?:\/\w+)?\/?/
\* matches at i (what follows the first (\w+) is optional)
RedditAt(t, i) ==
    LET h == HostAt(t, i)
        se == RunEnd(t, h + 4, WordTokens)
    IN  /\ At(t, i) \in Schemes
        /\ At(t, h) = "reddit.com"
        /\ At(t, h + 1) = "/"
        /\ At(t, h + 2) = "r"
        /\ At(t, h + 3) = "/"
        /\ se >= h + 4
        /\ At(t, se + 1) = "/"
        /\ At(t, se + 2) \in {"comments", "s"}
        /\ At(t, se + 3) = "/"
        /\ At(t, se + 4) \in WordTokens

\* line 203: /\/status\/(\d+)/ matches at i
StatusAt(t, i) ==
    /\ At(t, i) = "/"
    /\ At(t, i + 1) = "status"
    /\ At(t, i + 2) = "/"
    /\ At(t, i + 3) \in DigitTokens

\* the leftmost position of a set of match positions
First(S) == CHOOSE i \in S : \A j \in S : i <= j

TwitterMatches(t) == {i \in 1..Len(t) : TwitterAt(t, i)}
StatusMatches(t) == {i \in 1..Len(t) : StatusAt(t, i)}

\* regexTwitter (line 30) and regexReddit (line 31) are unanchored: they
\* match when the text contains a matching substring anywhere
regexTwitter(text) == TwitterMatches(Pieces(text)) # {}
regexReddit(text) == \E i \in 1..Len(Pieces(text)) : RedditAt(Pieces(text), i)

\* a handle read at a fixed place after the scheme, as if "www." never occurred
tweetUserAssumesNoWww(text) ==
    LET t == Pieces(text)
        i == First(TwitterMatches(t))
    IN  SubSeq(t, i + 3, RunEnd(t, i + 3, WordTokens))

\* line 202: the handle captured by the first match of the status URL pattern
tweetUser(text) ==
    LET t == Pieces(text)
        h == HostAt(t, First(TwitterMatches(t)))
    IN  SubSeq(t, h + 2, RunEnd(t, h + 2, WordTokens))

\* line 203: the digits captured by the first match of /\/status\/(\d+)/ in
\* the whole text
tweetId(text) ==
    LET t == Pieces(text)
        i == First(StatusMatches(t))
    IN  SubSeq(t, i + 3, RunEnd(t, i + 3, DigitTokens))

\* line 204
cleanedTweetUrl(text) ==
    <<"https://fxtwitter.com/">> \o tweetUser(text) \o <<"/status/">> \o tweetId(text)

\* line 215: url.split("?")[0], the text before its first "?"
BeforeQuery(t) ==
    LET qs == {i \in 1..Len(t) : t[i] = "?"}
    IN  IF qs = {} THEN t ELSE SubSeq(t, 1, First(qs) - 1)

\* line 216: String.replace with a string pattern replaces the first
\* occurrence only
ReplaceFirst(t, old, new) ==
    LET os == {i \in 1..Len(t) : t[i] = old}
    IN  IF os = {} THEN t ELSE [t EXCEPT ![First(os)] = new]

\* lines 214-216
cleanedRedditUrl(text) ==
    ReplaceFirst(BeforeQuery(Pieces(text)), "reddit.com", "rxddit.com")

\* the filter of a registration
Matches(reg, m) ==
    CASE reg.kind = "command" -> Head(m.text) = CommandToken(reg.name)
      [] reg.name = "regexTwitter" -> regexTwitter(m.text)
      [] reg.name = "regexReddit" -> regexReddit(m.text)
      [] OTHER -> TRUE      \* "message:text": every update modelled is a text message

\* handlers that pass every update on to the next registration
CallsNextAlways(name) == TRUE

\* Every handler is registered as (ctx) => ...: none takes or calls next(),
\* so none passes the update on to the registrations after it.
CallsNext(name) == FALSE

\* first registration at or after position k whose filter passes, 0 if none
NextMatch(m, k) ==
    LET S == {j \in k..Len(Registrations) : Matches(Registrations[j], m)}
    IN  IF S = {} THEN 0 ELSE CHOOSE j \in S : \A l \in S : j <= l

Cur(p) == Registrations[idx[p]].name

\* ------------------------------------------------------------ call logs
SetLast(log, st) == [log EXCEPT ![Len(log)].state = st]

Issue(log, p, entry) == [log EXCEPT ![p] = Append(@, entry)]

ReplyCall(text, awaited, st) == [text |-> text, awaited |-> awaited, state |-> st]

\* a ctx.reply the code does not await: the call is issued, the handler goes
\* on, and a rejection of the call reaches no handler
Floating(p, text) ==
    \E st \in {"ok", "failed"} :
        replies' = Issue(replies, p, ReplyCall(text, FALSE, st))

\* the handler's promise settles: the chain goes on only if it called next()
Settle(p, how) ==
    /\ outcome' = [outcome EXCEPT ![p] = how]
    /\ IF how = "returned" /\ CallsNext(Cur(p))
       THEN /\ pc' = [pc EXCEPT ![p] = "dispatch"]
            /\ idx' = [idx EXCEPT ![p] = @ + 1]
       ELSE /\ pc' = [pc EXCEPT ![p] = "done"]
            /\ idx' = idx

\* return ctx.reply(text): the call is issued and the handler's promise
\* follows it
AwaitedReply(p, text) ==
    /\ replies' = Issue(replies, p, ReplyCall(text, TRUE, "pending"))
    /\ pc' = [pc EXCEPT ![p] = "reply"]
    /\ UNCHANGED <<idx, outcome>>

\* ------------------------------------------------------------------ Init
Init ==
    /\ banned \in [Users -> BOOLEAN]
    /\ pc = [p \in Procs |-> "idle"]
    /\ msg = [p \in Procs |-> NoMsg]
    /\ idx = [p \in Procs |-> 1]
    /\ ran = [p \in Procs |-> <<>>]
    /\ queries = [p \in Procs |-> <<>>]
    /\ muts = [p \in Procs |-> <<>>]
    /\ replies = [p \in Procs |-> <<>>]
    /\ errlog = [p \in Procs |-> 0]
    /\ outcome = [p \in Procs |-> "none"]

\* --------------------------------------------------------------- actions
\* a loop that hands an update to a free slot while another is being handled
DeliverWhileBusy(p) ==
    /\ pc[p] = "idle"
    /\ \E m \in Messages : msg' = [msg EXCEPT ![p] = m]
    /\ pc' = [pc EXCEPT ![p] = "dispatch"]
    /\ UNCHANGED <<banned, idx, ran, queries, muts, replies, errlog, outcome>>

\* bot.start(): the polling loop hands the next update to the middleware
\* once the handling of the previous one has settled
Deliver(p) ==
    /\ \A q \in Procs : pc[q] = "idle"
    /\ \E m \in Messages : msg' = [msg EXCEPT ![p] = m]
    /\ pc' = [pc EXCEPT ![p] = "dispatch"]
    /\ UNCHANGED <<banned, idx, ran, queries, muts, replies, errlog, outcome>>

\* the chain looks for the next registration whose filter passes and runs
\* its handler; with none left the update is dropped
Dispatch(p) ==
    /\ pc[p] = "dispatch"
    /\ LET k == NextMatch(msg[p], idx[p])
       IN  IF k = 0
           THEN /\ pc' = [pc EXCEPT ![p] = "done"]
                /\ outcome' = [outcome EXCEPT ![p] = "returned"]
                /\ UNCHANGED <<idx, ran>>
           ELSE /\ pc' = [pc EXCEPT ![p] = "run"]
                /\ idx' = [idx EXCEPT ![p] = k]
                /\ ran' = [ran EXCEPT ![p] = Append(@, Registrations[k].name)]
                /\ UNCHANGED outcome
    /\ UNCHANGED <<banned, msg, queries, muts, replies, errlog>>

\* ---------------------------------------------------- permission checker
\* a reply check that never fails
hasReplyAlways(m) == TRUE

\* handleKickBanUnban, line 109: the truthiness of ctx.message.reply_to_message
hasReply(m) == m.reply # NoReply

\* a self check that compares with the sender of the command, not with ctx.me
isMeComparesSender(m) == hasReply(m) /\ m.reply = m.from

\* a pipeline without the self check
isMeNever(m) == FALSE

\* isMe, lines 38-40
isMe(m) == hasReply(m) /\ m.reply = Bot

\* an admin check that also lets ordinary members through
isAdminAnyMember(member) == member.status \in {"administrator", "creator", "member"}

\* isAdmin, line 49, on the record getChatMember(ctx.from.id) resolved to
isAdmin(member) == member.status = "administrator" \/ member.status = "creator"

\* a capability check that only refuses an explicit false
canRestrictUnlessFalse(member) == member.can_restrict_members # "false"

\* canRestrict, line 59: the truthiness of botMember.can_restrict_members
canRestrict(member) == member.can_restrict_members = "true"

\* an admin check that asks about the author of the replied-to message
AdminQueryUserIsTarget(m) == m.reply

\* the user isAdmin asks about (line 48) and the one canRestrict asks about
\* (line 58)
AdminQueryUser(m) == m.from
RestrictQueryUser(m) == Bot

\* restrictUser, line 75: ctx.message.reply_to_message?.from?.id
targetUser(m) == IF m.reply \in {NoReply, NoFrom} THEN "undefined" ELSE m.reply

\* an action applied to the sender of the command
repliedUserIsSender(m) == m.from

\* handleKickBanUnban, line 110: the id applyAction is called with (line 112)
repliedUser(m) == m.reply

\* a kick that forgets the unban
CallsUnbanOnlyUnban(action) == action = "unban"

\* applyAction, lines 95 and 98: which calls an action makes
CallsBan(action) == action = "kick" \/ action = "ban"
CallsUnban(action) == action = "kick" \/ action = "unban"

QueryCall(user) == [user |-> user, state |-> "pending", member |-> NoMember]
MutCall(op, user) == [op |-> op, user |-> user, state |-> "pending"]

Answered(log, member) ==
    [log EXCEPT ![Len(log)].state = "ok", ![Len(log)].member = member]

\* ------------------------------------------------- moderation pipeline
\* bot.command("kick" | "ban" | "unban") -> handleKickBanUnban (lines 108-117)
\* and restrictUser up to its first await (lines 68-71)
HandleKickBanUnban(p) ==
    /\ pc[p] = "run"
    /\ Cur(p) \in {"kick", "ban", "unban"}
    /\ LET m == msg[p] IN
       IF ~hasReply(m)
       THEN \* line 115, not awaited
            /\ Floating(p, ReplyUsage(Cur(p)))
            /\ Settle(p, "returned")
            /\ UNCHANGED queries
       ELSE IF m.reply = NoFrom
       THEN \* line 110: reading .id of an undefined from throws a TypeError
            /\ Settle(p, "threw")
            /\ UNCHANGED <<queries, replies>>
       ELSE IF isMe(m)
       THEN \* line 69
            /\ AwaitedReply(p, ReplySelf)
            /\ UNCHANGED queries
       ELSE \* line 71 -> line 48
            /\ queries' = Issue(queries, p, QueryCall(AdminQueryUser(m)))
            /\ pc' = [pc EXCEPT ![p] = "isAdmin"]
            /\ UNCHANGED <<idx, outcome, replies>>
    /\ UNCHANGED <<banned, msg, ran, muts, errlog>>

\* an applyAction with a guard of its own: a user who is not banned is not
\* unbanned again
StartActionChecksTarget(p, action, user) ==
    IF CallsBan(action)
    THEN /\ muts' = Issue(muts, p, MutCall("banChatMember", user))
         /\ pc' = [pc EXCEPT ![p] = "ban"]
         /\ UNCHANGED <<idx, outcome>>
    ELSE IF CallsUnban(action) /\ banned[user]
    THEN /\ muts' = Issue(muts, p, MutCall("unbanChatMember", user))
         /\ pc' = [pc EXCEPT ![p] = "unban"]
         /\ UNCHANGED <<idx, outcome>>
    ELSE /\ Settle(p, "returned")
         /\ UNCHANGED muts

\* applyAction is entered (lines 79, 112, 94-96): its first transport call
StartAction(p, action, user) ==
    IF CallsBan(action)
    THEN /\ muts' = Issue(muts, p, MutCall("banChatMember", user))
         /\ pc' = [pc EXCEPT ![p] = "ban"]
         /\ UNCHANGED <<idx, outcome>>
    ELSE IF CallsUnban(action)
    THEN /\ muts' = Issue(muts, p, MutCall("unbanChatMember", user))
         /\ pc' = [pc EXCEPT ![p] = "unban"]
         /\ UNCHANGED <<idx, outcome>>
    ELSE /\ Settle(p, "returned")
         /\ UNCHANGED muts

\* getChatMember(ctx.from.id) settles (line 48); restrictUser goes on to
\* line 71 and, for an administrator, to canRestrict's call (line 58).  The
\* call is outside the try block: a rejection leaves the handler.
IsAdminReturns(p) ==
    /\ pc[p] = "isAdmin"
    /\ \/ /\ queries' = [queries EXCEPT ![p] = SetLast(@, "failed")]
          /\ Settle(p, "threw")
          /\ UNCHANGED replies
       \/ \E member \in ChatMembers :
            IF isAdmin(member)
            THEN /\ queries' = [queries EXCEPT ![p] =
                        Append(Answered(@, member), QueryCall(RestrictQueryUser(msg[p])))]
                 /\ pc' = [pc EXCEPT ![p] = "canRestrict"]
                 /\ UNCHANGED <<idx, outcome, replies>>
            ELSE /\ queries' = [queries EXCEPT ![p] = Answered(@, member)]
                 /\ AwaitedReply(p, ReplyNotAdmin)
    /\ UNCHANGED <<banned, msg, ran, muts, errlog>>

\* getChatMember(ctx.me.id) settles (line 58); restrictUser goes on to lines
\* 73-79 and applyAction to its first call
CanRestrictReturns(p) ==
    /\ pc[p] = "canRestrict"
    /\ \/ /\ queries' = [queries EXCEPT ![p] = SetLast(@, "failed")]
          /\ Settle(p, "threw")
          /\ UNCHANGED <<replies, muts>>
       \/ \E member \in ChatMembers :
            /\ queries' = [queries EXCEPT ![p] = Answered(@, member)]
            /\ IF ~canRestrict(member)
               THEN /\ AwaitedReply(p, ReplyCantRestrict)
                    /\ UNCHANGED muts
               ELSE IF targetUser(msg[p]) = "undefined"
               THEN \* line 76
                    /\ Settle(p, "returned")
                    /\ UNCHANGED <<replies, muts>>
               ELSE /\ StartAction(p, Cur(p), repliedUser(msg[p]))
                    /\ UNCHANGED replies
    /\ UNCHANGED <<banned, msg, ran, errlog>>

\* a catch block that logs and rethrows
CaughtRethrows(p) ==
    /\ errlog' = [errlog EXCEPT ![p] = @ + 1]
    /\ Settle(p, "threw")
    /\ UNCHANGED replies

\* a catch block that logs and tells the chat nothing
CaughtWithoutReply(p) ==
    /\ errlog' = [errlog EXCEPT ![p] = @ + 1]
    /\ Settle(p, "returned")
    /\ UNCHANGED replies

\* a catch block that replies twice
CaughtRepliesTwice(p) ==
    /\ errlog' = [errlog EXCEPT ![p] = @ + 1]
    /\ replies' = [replies EXCEPT ![p] =
            @ \o <<ReplyCall(ReplyError, FALSE, "ok"), ReplyCall(ReplyError, FALSE, "ok")>>]
    /\ Settle(p, "returned")

\* restrictUser's catch block (lines 80-83): log, reply without awaiting,
\* return normally
Caught(p) ==
    /\ errlog' = [errlog EXCEPT ![p] = @ + 1]
    /\ Floating(p, ReplyError)
    /\ Settle(p, "returned")

\* a success path that confirms the action to the chat
SucceededWithReply(p) ==
    /\ Floating(p, <<"Done">>)
    /\ Settle(p, "returned")
    /\ UNCHANGED errlog

\* await action(targetUser) resolved (line 79): restrictUser falls off its
\* end (line 84) and handleKickBanUnban returns
Succeeded(p) ==
    /\ Settle(p, "returned")
    /\ UNCHANGED <<errlog, replies>>

\* an applyAction that swallows a failed ban and goes on to the unban
BanReturnsGoesOn(p) ==
    /\ pc[p] = "ban"
    /\ LET user == muts[p][Len(muts[p])].user IN
       \/ /\ banned' = [banned EXCEPT ![user] = TRUE]
          /\ IF CallsUnban(Cur(p))
             THEN /\ muts' = [muts EXCEPT ![p] =
                        Append(SetLast(@, "ok"), MutCall("unbanChatMember", user))]
                  /\ pc' = [pc EXCEPT ![p] = "unban"]
                  /\ UNCHANGED <<idx, outcome>>
                  /\ UNCHANGED <<errlog, replies>>
             ELSE /\ muts' = [muts EXCEPT ![p] = SetLast(@, "ok")]
                  /\ Succeeded(p)
       \/ /\ UNCHANGED banned
          /\ IF CallsUnban(Cur(p))
             THEN /\ muts' = [muts EXCEPT ![p] =
                        Append(SetLast(@, "failed"), MutCall("unbanChatMember", user))]
                  /\ pc' = [pc EXCEPT ![p] = "unban"]
                  /\ UNCHANGED <<idx, outcome, errlog, replies>>
             ELSE /\ muts' = [muts EXCEPT ![p] = SetLast(@, "failed")]
                  /\ Caught(p)
    /\ UNCHANGED <<msg, ran, queries>>

\* banChatMember settles (line 96); on success applyAction goes on to line 98
BanReturns(p) ==
    /\ pc[p] = "ban"
    /\ LET user == muts[p][Len(muts[p])].user IN
       \/ /\ banned' = [banned EXCEPT ![user] = TRUE]
          /\ IF CallsUnban(Cur(p))
             THEN /\ muts' = [muts EXCEPT ![p] =
                        Append(SetLast(@, "ok"), MutCall("unbanChatMember", user))]
                  /\ pc' = [pc EXCEPT ![p] = "unban"]
                  /\ UNCHANGED <<idx, outcome>>
                  /\ UNCHANGED <<errlog, replies>>
             ELSE /\ muts' = [muts EXCEPT ![p] = SetLast(@, "ok")]
                  /\ Succeeded(p)
       \/ /\ muts' = [muts EXCEPT ![p] = SetLast(@, "failed")]
          /\ Caught(p)
          /\ UNCHANGED banned
    /\ UNCHANGED <<msg, ran, queries>>

\* unbanChatMember settles (line 99)
UnbanReturns(p) ==
    /\ pc[p] = "unban"
    /\ LET user == muts[p][Len(muts[p])].user IN
       \/ /\ banned' = [banned EXCEPT ![user] = FALSE]
          /\ muts' = [muts EXCEPT ![p] = SetLast(@, "ok")]
          /\ Succeeded(p)
       \/ /\ muts' = [muts EXCEPT ![p] = SetLast(@, "failed")]
          /\ Caught(p)
          /\ UNCHANGED banned
    /\ UNCHANGED <<msg, ran, queries>>

\* a returned ctx.reply settles (lines 69, 71, 73, 185): the handler's
\* promise settles the same way
ReplyReturns(p) ==
    /\ pc[p] = "reply"
    /\ \/ /\ replies' = [replies EXCEPT ![p] = SetLast(@, "ok")]
          /\ Settle(p, "returned")
       \/ /\ replies' = [replies EXCEPT ![p] = SetLast(@, "failed")]
          /\ Settle(p, "threw")
    /\ UNCHANGED <<banned, msg, ran, queries, muts, errlog>>

\* ------------------------------------------------------- other handlers
\* bot.command("start"), lines 127-129
StartCommand(p) ==
    /\ pc[p] = "run"
    /\ Cur(p) = "start"
    /\ Floating(p, ReplyStart)
    /\ Settle(p, "returned")
    /\ UNCHANGED <<banned, msg, ran, queries, muts, errlog>>

\* bot.command("help"), lines 135-137
HelpCommand(p) ==
    /\ pc[p] = "run"
    /\ Cur(p) = "help"
    /\ Floating(p, ReplyHelp)
    /\ Settle(p, "returned")
    /\ UNCHANGED <<banned, msg, ran, queries, muts, errlog>>

\* bot.command("spark"), lines 169-193: the arguments are the tokens after
\* the command; the arithmetic of the reply is not modelled
SparkCommand(p) ==
    /\ pc[p] = "run"
    /\ Cur(p) = "spark"
    /\ IF Len(msg[p].text) - 1 \in 1..3
       THEN /\ Floating(p, ReplySparkDraws)
            /\ Settle(p, "returned")
       ELSE AwaitedReply(p, ReplySparkUsage)
    /\ UNCHANGED <<banned, msg, ran, queries, muts, errlog>>

\* bot.hears(regexTwitter), lines 199-207
HearsTwitter(p) ==
    /\ pc[p] = "run"
    /\ Cur(p) = "regexTwitter"
    /\ IF regexTwitter(msg[p].text)
       THEN Floating(p, ReplyFrom(msg[p].from, cleanedTweetUrl(msg[p].text)))
       ELSE UNCHANGED replies
    /\ Settle(p, "returned")
    /\ UNCHANGED <<banned, msg, ran, queries, muts, errlog>>

\* bot.hears(regexReddit), lines 213-218
HearsReddit(p) ==
    /\ pc[p] = "run"
    /\ Cur(p) = "regexReddit"
    /\ Floating(p, ReplyFrom(msg[p].from, cleanedRedditUrl(msg[p].text)))
    /\ Settle(p, "returned")
    /\ UNCHANGED <<banned, msg, ran, queries, muts, errlog>>

\* bot.on("message:text"), lines 224-227
OnMessageText(p) ==
    /\ pc[p] = "run"
    /\ Cur(p) = "message:text"
    /\ IF msg[p].text = << <<"Hola">> >> /\ msg[p].chatType = "private"
       THEN Floating(p, ReplyUwU)
       ELSE UNCHANGED replies
    /\ Settle(p, "returned")
    /\ UNCHANGED <<banned, msg, ran, queries, muts, errlog>>

\* the handling of the update has settled: its context is discarded and the
\* polling loop is free to deliver the next update
Return(p) ==
    /\ pc[p] = "done"
    /\ pc' = [pc EXCEPT ![p] = "idle"]
    /\ msg' = [msg EXCEPT ![p] = NoMsg]
    /\ idx' = [idx EXCEPT ![p] = 1]
    /\ ran' = [ran EXCEPT ![p] = <<>>]
    /\ queries' = [queries EXCEPT ![p] = <<>>]
    /\ muts' = [muts EXCEPT ![p] = <<>>]
    /\ replies' = [replies EXCEPT ![p] = <<>>]
    /\ errlog' = [errlog EXCEPT ![p] = 0]
    /\ outcome' = [outcome EXCEPT ![p] = "none"]
    /\ UNCHANGED banned

Next ==
    \E p \in Procs :
        \/ Deliver(p)
        \/ Dispatch(p)
        \/ HandleKickBanUnban(p)
        \/ IsAdminReturns(p)
        \/ CanRestrictReturns(p)
        \/ BanReturns(p)
        \/ UnbanReturns(p)
        \/ ReplyReturns(p)
        \/ StartCommand(p)
        \/ HelpCommand(p)
        \/ SparkCommand(p)
        \/ HearsTwitter(p)
        \/ HearsReddit(p)
        \/ OnMessageText(p)
        \/ Return(p)

Spec == Init /\ [][Next]_vars

\* ------------------------------------------------- the link handlers alone
\* an update whose text holds a URL, sent to a group without replying
DeliverUrl(p) ==
    /\ \A q \in Procs : pc[q] = "idle"
    /\ \E t \in UrlTexts :
         msg' = [msg EXCEPT ![p] =
                    [text |-> t, chatType |-> "group", from |-> "u1", reply |-> NoReply]]
    /\ pc' = [pc EXCEPT ![p] = "dispatch"]
    /\ UNCHANGED <<banned, idx, ran, queries, muts, replies, errlog, outcome>>

InitNormalize ==
    /\ Init
    /\ banned = [u \in Users |-> FALSE]

NextNormalize ==
    \E p \in Procs :
        \/ DeliverUrl(p)
        \/ Dispatch(p)
        \/ HearsTwitter(p)
        \/ HearsReddit(p)
        \/ OnMessageText(p)
        \/ Return(p)

SpecNormalize == InitNormalize /\ [][NextNormalize]_vars

TypeOK ==
    /\ banned \in [Users -> BOOLEAN]
    /\ \A p \in Procs :
        /\ pc[p] \in {"idle", "dispatch", "run", "isAdmin", "canRestrict",
                      "ban", "unban", "reply", "done"}
        /\ \/ msg[p] \in Messages \cup {NoMsg}
           \/ msg[p].text \in UrlTexts
        /\ idx[p] \in 1..(Len(Registrations) + 1)
        /\ outcome[p] \in {"none", "returned", "threw"}
        /\ errlog[p] \in 0..1

\* ======================================================== properties
ModerationCommands == {"kick", "ban", "unban"}

\* slot p is handling a kick, ban or unban command
Moderating(p) == ran[p] # <<>> /\ Head(ran[p]) \in ModerationCommands

\* the command handler of slot p has handed control back
Ended(p) == pc[p] = "done"

\* the Bot API answered the query about the invoker with status s
InvokerStatus(p, s) ==
    \E i \in 1..Len(queries[p]) :
        /\ queries[p][i].user = msg[p].from
        /\ queries[p][i].state = "ok"
        /\ queries[p][i].member.status = s

InvokerIsAdmin(p) ==
    InvokerStatus(p, "administrator") \/ InvokerStatus(p, "creator")

InvokerIsNotAdmin(p) ==
    \E s \in Statuses \ {"administrator", "creator"} : InvokerStatus(p, s)

\* the Bot API answered the query about the bot with capability c
BotCapability(p, c) ==
    \E i \in 1..Len(queries[p]) :
        /\ queries[p][i].user = Bot
        /\ queries[p][i].state = "ok"
        /\ queries[p][i].member.can_restrict_members = c

AllMutationsOk(p) == \A i \in 1..Len(muts[p]) : muts[p][i].state = "ok"
SomeMutationFailed(p) == \E i \in 1..Len(muts[p]) : muts[p][i].state = "failed"

OkCall(op, user) == [op |-> op, user |-> user, state |-> "ok"]

\* the texts of the replies issued, in order
ReplyTexts(p) == [i \in 1..Len(replies[p]) |-> replies[p][i].text]

\* C1: a kick issued as a reply to user U by an administrator or creator, in
\* a chat where the bot can restrict members and with both calls succeeding,
\* issues exactly banChatMember(U) and then unbanChatMember(U), and U ends
\* not banned.
C1_KickBansThenUnbans ==
    \A p \in Procs :
        ( /\ Ended(p)
          /\ Moderating(p) /\ Head(ran[p]) = "kick"
          /\ msg[p].reply \in Users
          /\ InvokerIsAdmin(p)
          /\ BotCapability(p, "true")
          /\ AllMutationsOk(p) )
        => /\ muts[p] = << OkCall("banChatMember", msg[p].reply),
                           OkCall("unbanChatMember", msg[p].reply) >>
           /\ ~banned[msg[p].reply]

C1_Witness ==
    \E p \in Procs :
        /\ Moderating(p) /\ Ended(p) /\ Head(ran[p]) = "kick"
        /\ msg[p].reply = "u2" /\ msg[p].from = "u1"
        /\ InvokerStatus(p, "creator")
        /\ BotCapability(p, "true")
        /\ Len(muts[p]) = 2 /\ AllMutationsOk(p)
        /\ ~banned["u2"]

\* C2: a moderation command issued as a reply to a user's message by an
\* invoker who is neither administrator nor creator gets the "You are not an
\* administrator" reply and issues no banChatMember / unbanChatMember call.
C2_NonAdminRefused ==
    \A p \in Procs :
        (Moderating(p) /\ msg[p].reply \in Users /\ InvokerIsNotAdmin(p))
        => /\ muts[p] = <<>>
           /\ ReplyTexts(p) = <<ReplyNotAdmin>>

C2_Witness ==
    \E p \in Procs :
        /\ Ended(p) /\ Head(ran[p]) = "ban"
        /\ msg[p].reply = "u2" /\ msg[p].from = "u1"
        /\ InvokerStatus(p, "member")
        /\ replies[p] = <<ReplyCall(ReplyNotAdmin, TRUE, "ok")>>
        /\ muts[p] = <<>>

\* C3: a moderation command issued as a reply by an administrator or creator
\* in a chat where the bot's record lacks can_restrict_members gets the "I
\* can't restrict members" reply and issues no mutation call.
C3_IncapableBotRefuses ==
    \A p \in Procs :
        ( /\ Moderating(p) /\ msg[p].reply \in Users
          /\ InvokerIsAdmin(p)
          /\ (BotCapability(p, "false") \/ BotCapability(p, "undefined")) )
        => /\ muts[p] = <<>>
           /\ ReplyTexts(p) = <<ReplyCantRestrict>>

C3_Witness ==
    \E p \in Procs :
        /\ Moderating(p) /\ Ended(p) /\ Head(ran[p]) = "kick"
        /\ msg[p].reply = "u2"
        /\ InvokerStatus(p, "administrator")
        /\ BotCapability(p, "undefined")
        /\ replies[p] = <<ReplyCall(ReplyCantRestrict, TRUE, "ok")>>
        /\ muts[p] = <<>>

\* C4: a moderation command issued as a reply to a message of the bot itself
\* gets the "I can't restrict myself" reply and issues no mutation call,
\* whatever the invoker's status and the bot's capability are.
C4_SelfTargetRefused ==
    \A p \in Procs :
        (Moderating(p) /\ msg[p].reply = Bot /\ pc[p] # "run")
        => /\ muts[p] = <<>>
           /\ ReplyTexts(p) = <<ReplySelf>>

C4_Witness ==
    \E p \in Procs :
        /\ Ended(p) /\ Head(ran[p]) = "unban"
        /\ msg[p].reply = Bot
        /\ replies[p] = <<ReplyCall(ReplySelf, TRUE, "ok")>>
        /\ muts[p] = <<>> /\ queries[p] = <<>>

\* C5: every banChatMember / unbanChatMember call is preceded, in the
\* handling of the same update, by a query about the invoking user answered
\* administrator or creator and by a query about the bot answered with
\* can_restrict_members set; the answers are those of this update's own
\* queries.
C5_FreshChecksBeforeMutation ==
    \A p \in Procs :
        muts[p] # <<>>
        => /\ Len(queries[p]) = 2
           /\ queries[p][1].user = msg[p].from
           /\ queries[p][1].state = "ok"
           /\ queries[p][1].member.status \in {"administrator", "creator"}
           /\ queries[p][2].user = Bot
           /\ queries[p][2].state = "ok"
           /\ queries[p][2].member.can_restrict_members = "true"

C5_Witness ==
    \E p \in Procs :
        /\ pc[p] = "ban"
        /\ muts[p] = <<MutCall("banChatMember", "u1")>>
        /\ msg[p].from = "u2"
        /\ InvokerIsAdmin(p) /\ BotCapability(p, "true")

SomeQueryFailed(p) == \E i \in 1..Len(queries[p]) : queries[p][i].state = "failed"

SomeReplyFailed(p, awaited) ==
    \E i \in 1..Len(replies[p]) :
        replies[p][i].state = "failed" /\ replies[p][i].awaited = awaited

ErrorReplies(p) == {i \in 1..Len(replies[p]) : replies[p][i].text = ReplyError}

\* C6, as claimed: a failure of any transport call of a moderation command
\* (query, mutation or reply) is caught in the handler, logged and answered
\* with the generic error reply, and never leaves the handler.
C6_Original ==
    \A p \in Procs :
        ( /\ Moderating(p) /\ Ended(p)
          /\ (SomeQueryFailed(p) \/ SomeMutationFailed(p)
                \/ SomeReplyFailed(p, TRUE) \/ SomeReplyFailed(p, FALSE)) )
        => /\ outcome[p] = "returned"
           /\ errlog[p] >= 1
           /\ ErrorReplies(p) # {}

\* C6, amended: only a failed banChatMember / unbanChatMember call is caught
\* (logged, answered with the generic error reply, handler returns); a failed
\* getChatMember query or a failed reply that restrictUser returns leaves
\* the handler as a rejection, unlogged and unanswered; a failed reply that
\* is not awaited does not reach the handler, which returns.
C6_OnlyMutationFailuresCaught ==
    \A p \in Procs :
        (Moderating(p) /\ Ended(p))
        => /\ SomeMutationFailed(p)
                => /\ outcome[p] = "returned"
                   /\ errlog[p] = 1
                   /\ Cardinality(ErrorReplies(p)) = 1
           /\ (SomeQueryFailed(p) \/ SomeReplyFailed(p, TRUE))
                => /\ outcome[p] = "threw"
                   /\ errlog[p] = 0
                   /\ ErrorReplies(p) = {}
           /\ (SomeReplyFailed(p, FALSE) /\ ~SomeMutationFailed(p))
                => /\ outcome[p] = "returned"
                   /\ errlog[p] = 0

C6_Witness ==
    \E p \in Procs :
        /\ Moderating(p) /\ Ended(p) /\ SomeMutationFailed(p)
        /\ outcome[p] = "returned" /\ errlog[p] = 1
        /\ ReplyTexts(p) = <<ReplyError>>

C6_WitnessQueryFailure ==
    \E p \in Procs :
        /\ Moderating(p) /\ Ended(p) /\ SomeQueryFailed(p)
        /\ outcome[p] = "threw"

\* C7: when a banChatMember or unbanChatMember call fails, the error is
\* logged, exactly one reply is issued and it is the generic error reply, the
\* failed call is the last mutation call (no call is repeated), and the
\* handler returns without raising.
C7_FailedMutationHandledOnce ==
    \A p \in Procs :
        (Moderating(p) /\ SomeMutationFailed(p))
        => /\ Ended(p)
           /\ outcome[p] = "returned"
           /\ errlog[p] = 1
           /\ ReplyTexts(p) = <<ReplyError>>
           /\ muts[p][Len(muts[p])].state = "failed"
           /\ \A i \in 1..(Len(muts[p]) - 1) : muts[p][i].state = "ok"
           /\ \A i, j \in 1..Len(muts[p]) : i # j => muts[p][i].op # muts[p][j].op

C7_Witness ==
    \E p \in Procs :
        /\ Moderating(p) /\ Ended(p) /\ Head(ran[p]) = "kick"
        /\ Len(muts[p]) = 2
        /\ muts[p][1].state = "ok" /\ muts[p][2].state = "failed"
        /\ banned[msg[p].reply]
        /\ replies[p] = <<ReplyCall(ReplyError, FALSE, "ok")>>

\* C8: a kick, ban or unban that is not a reply gets the usage hint naming
\* the action and issues no membership query and no mutation call: the
\* missing reply is detected before any other check.
C8_NoReplyCheckedFirst ==
    \A p \in Procs :
        (Moderating(p) /\ msg[p].reply = NoReply /\ pc[p] # "run")
        => /\ ReplyTexts(p) = <<ReplyUsage(Head(ran[p]))>>
           /\ queries[p] = <<>>
           /\ muts[p] = <<>>

C8_Witness ==
    \E p \in Procs :
        /\ Ended(p) /\ Head(ran[p]) = "ban"
        /\ msg[p].reply = NoReply
        /\ ReplyTexts(p) = << <<"You need to reply to a message to ", "ban", " a user">> >>
        /\ queries[p] = <<>>

\* C9: a moderation command that passes every gate and whose mutation calls
\* all succeed issues no reply.
C9_SuccessIsSilent ==
    \A p \in Procs :
        ( /\ Moderating(p) /\ Ended(p)
          /\ InvokerIsAdmin(p) /\ BotCapability(p, "true")
          /\ muts[p] # <<>> /\ AllMutationsOk(p) )
        => replies[p] = <<>>

C9_Witness ==
    \E p \in Procs :
        /\ Ended(p) /\ Head(ran[p]) = "ban"
        /\ muts[p] = <<OkCall("banChatMember", "u1")>>
        /\ banned["u1"]
        /\ outcome[p] = "returned"
        /\ replies[p] = <<>>

\* the names of the registrations whose filter passes for message m, in
\* registration order
MatchingHandlers(m) ==
    LET sel == SelectSeq(Registrations, LAMBDA r : Matches(r, m))
    IN  [i \in 1..Len(sel) |-> sel[i].name]

\* C10, as claimed: for a message that several registrations match, every
\* matching handler runs, in registration order.
C10_Original ==
    \A p \in Procs :
        (Ended(p) /\ outcome[p] = "returned")
        => ran[p] = MatchingHandlers(msg[p])

\* C10, amended: a handler that runs consumes the update.  For a text message
\* that several registrations match, only the first matching handler in
\* registration order runs; the later ones never see the update.
C10_FirstMatchingHandlerOnly ==
    \A p \in Procs :
        pc[p] \notin {"idle", "dispatch"}
        => ran[p] = <<MatchingHandlers(msg[p])[1]>>

C10_Witness ==
    \E p \in Procs :
        /\ Ended(p) /\ outcome[p] = "returned"
        /\ msg[p].text = <<twitterStatusUrl, redditThreadUrl>>
        /\ MatchingHandlers(msg[p]) = <<"regexTwitter", "regexReddit", "message:text">>
        /\ ran[p] = <<"regexTwitter">>
        /\ ReplyTexts(p) =
            << <<"From @", msg[p].from, ":\n",
                 "https://fxtwitter.com/", "alice", "/status/", "123">> >>

\* the reply of the link handler that ran for the update of slot p
LinkHandled(p, name) == Ended(p) /\ ran[p] = <<name>>

\* the URL that starts at position i of string t: up to the next space or "?"
UrlEnd(t, i) == RunEnd(t, i, {x \in {t[k] : k \in 1..Len(t)} : x \notin {" ", "?"}})

\* C11, as claimed: the URL in the Reddit handler's reply is exactly the
\* matched URL up to and excluding any "?", with the host's reddit.com
\* replaced by rxddit.com; no text of the message outside the URL appears in
\* it and nothing of the URL is missing from it.
ClaimedRedditUrl(text) ==
    LET t == Pieces(text)
        i == First({k \in 1..Len(t) : RedditAt(t, k)})
    IN  [SubSeq(t, i, UrlEnd(t, i)) EXCEPT ![HostAt(t, i) - i + 1] = "rxddit.com"]

C11_Original ==
    \A p \in Procs :
        LinkHandled(p, "regexReddit")
        => ReplyTexts(p) = <<ReplyFrom(msg[p].from, ClaimedRedditUrl(msg[p].text))>>

\* C12: for a message whose first URL is a status URL of twitter.com or
\* x.com (with or without www.) with handle h and id d, whatever path
\* segments and query string follow the id, the reply carries exactly
\* https://fxtwitter.com/h/status/d.
C12_TweetUrlRewritten ==
    \A p \in Procs :
        LinkHandled(p, "regexTwitter")
        => \A k \in 1..Len(msg[p].text) :
             \A sc \in Schemes, w \in OptionalWww, host \in {"twitter.com", "x.com"},
                h \in Handles, e \in ExtraPaths, q \in QueryStrings :
                ( /\ msg[p].text[k] = TwitterUrl(sc, w, host, h, <<"123">>) \o e \o q
                  /\ \A j \in 1..(k - 1) : msg[p].text[j] \in PlainWords )
                => ReplyTexts(p) =
                     << <<"From @", msg[p].from, ":\n",
                          "https://fxtwitter.com/">> \o h \o <<"/status/", "123">> >>

C12_Witness ==
    \E p \in Procs :
        /\ LinkHandled(p, "regexTwitter")
        /\ msg[p].text =
             << <<"http://", "www.", "x.com", "/", "status", "/", "status", "/", "123",
                  "/", "photo", "?", "s=20">>,
                <<"/", "status", "/", "999">> >>
        /\ ReplyTexts(p) =
             << <<"From @", "u1", ":\n",
                  "https://fxtwitter.com/", "status", "/status/", "123">> >>

\* the id of the first match of the status URL pattern
FirstMatchId(text) ==
    LET t == Pieces(text)
        h == HostAt(t, First(TwitterMatches(t)))
        d == RunEnd(t, h + 2, WordTokens) + 4
    IN  SubSeq(t, d, RunEnd(t, d, DigitTokens))

\* C19, as claimed: for a text with several URLs the Twitter handler sends
\* one reply, and its URL carries the handle and the id of the same, first
\* matched status URL; the id never comes from other text of the message.
C19_Original ==
    \A p \in Procs :
        LinkHandled(p, "regexTwitter")
        => ReplyTexts(p) =
             <<ReplyFrom(msg[p].from,
                         <<"https://fxtwitter.com/">> \o tweetUser(msg[p].text)
                            \o <<"/status/">> \o FirstMatchId(msg[p].text))>>

\* the handler of slot p is suspended on a transport call
Suspended(p) == pc[p] \in {"isAdmin", "canRestrict", "ban", "unban", "reply"}

\* C13, as claimed: moderation commands are not serialized; at every await
\* point of one command the handling of a second update can start, so that
\* the transport calls of the two interleave.
C13_Original ==
    \A p, q \in Procs :
        (p # q /\ Moderating(p) /\ Suspended(p) /\ pc[q] = "idle")
        => ENABLED Deliver(q)

\* C13, amended: the polling loop started by bot.start() hands over one
\* update at a time; while a moderation command is suspended on a transport
\* call no other update is being handled, so the calls of two commands never
\* interleave.
C13_UpdatesSerialized ==
    \A p, q \in Procs :
        (p # q /\ pc[p] # "idle") => /\ pc[q] = "idle"
                                     /\ muts[q] = <<>>
                                     /\ queries[q] = <<>>

C13_Witness ==
    \E p, q \in Procs :
        /\ p # q
        /\ Moderating(p) /\ Head(ran[p]) = "kick" /\ pc[p] = "unban"
        /\ muts[p] = << OkCall("banChatMember", "u1"), MutCall("unbanChatMember", "u1") >>
        /\ banned["u1"]
        /\ pc[q] = "idle"

\* a moderation command of slot p that passed every gate
Admitted(p) ==
    /\ Moderating(p)
    /\ msg[p].reply \in Users
    /\ InvokerIsAdmin(p)
    /\ BotCapability(p, "true")

\* C14: an unban that passes the gates issues its unbanChatMember call
\* whatever the target's state is, without a query about the target; when the
\* call succeeds, also on a user who was not banned, there is no reply and
\* the target is not banned.
C14_UnbanIsUnguarded ==
    \A p \in Procs :
        (Admitted(p) /\ Head(ran[p]) = "unban")
        => /\ Len(muts[p]) = 1
           /\ muts[p][1].op = "unbanChatMember"
           /\ muts[p][1].user = msg[p].reply
           /\ Len(queries[p]) = 2
           /\ queries[p][1].user = msg[p].from
           /\ queries[p][2].user = Bot
           /\ muts[p][1].state = "ok"
                => /\ ~banned[msg[p].reply]
                   /\ replies[p] = <<>>
                   /\ outcome[p] = "returned"

C14_Witness ==
    \E p \in Procs :
        /\ Admitted(p) /\ Head(ran[p]) = "unban"
        /\ msg[p].reply = "u2" /\ msg[p].from = "u1"
        /\ ~banned["u2"]
        /\ pc[p] = "unban"
        /\ muts[p] = <<MutCall("unbanChatMember", "u2")>>

\* C15, as claimed: a command that replies to a message without an author
\* ends silently: no reply, no mutation call, no error raised.
C15_Original ==
    \A p \in Procs :
        (Moderating(p) /\ msg[p].reply = NoFrom /\ Ended(p))
        => /\ outcome[p] = "returned"
           /\ replies[p] = <<>>
           /\ muts[p] = <<>>

\* C16: an admitted ban whose call succeeds issues exactly one banChatMember
\* call and no unbanChatMember call, an admitted unban exactly one
\* unbanChatMember call and no banChatMember call; every mutation call is
\* about the author of the replied-to message.
C16_ActionDispatch ==
    \A p \in Procs :
        /\ \A i \in 1..Len(muts[p]) : muts[p][i].user = msg[p].reply
        /\ (Admitted(p) /\ Ended(p) /\ AllMutationsOk(p))
            => /\ Head(ran[p]) = "ban"
                    => muts[p] = <<OkCall("banChatMember", msg[p].reply)>>
               /\ Head(ran[p]) = "unban"
                    => muts[p] = <<OkCall("unbanChatMember", msg[p].reply)>>

C16_Witness ==
    \E p \in Procs :
        /\ Admitted(p) /\ Ended(p) /\ Head(ran[p]) = "unban"
        /\ msg[p].from = "u2" /\ msg[p].reply = "u1"
        /\ muts[p] = <<OkCall("unbanChatMember", "u1")>>

FailedCall(op, user) == [op |-> op, user |-> user, state |-> "failed"]

\* C17: a kick whose banChatMember call fails never calls unbanChatMember; a
\* kick whose ban succeeds and whose unban fails leaves the target banned,
\* makes no further call and only issues the generic error reply.  No command
\* issues more than two mutation calls.
C17_NoPartialFailureRecovery ==
    \A p \in Procs :
        /\ Len(muts[p]) <= 2
        /\ (Moderating(p) /\ Head(ran[p]) = "kick" /\ muts[p] # <<>>)
            => /\ muts[p][1].state = "failed"
                    => /\ muts[p] = <<FailedCall("banChatMember", msg[p].reply)>>
                       /\ Ended(p)
               /\ (Len(muts[p]) = 2 /\ muts[p][2].state = "failed")
                    => /\ muts[p] = << OkCall("banChatMember", msg[p].reply),
                                       FailedCall("unbanChatMember", msg[p].reply) >>
                       /\ banned[msg[p].reply]
                       /\ Ended(p)
                       /\ ReplyTexts(p) = <<ReplyError>>

C17_Witness ==
    \E p \in Procs :
        /\ Moderating(p) /\ Ended(p) /\ Head(ran[p]) = "kick"
        /\ msg[p].reply = "u1"
        /\ muts[p] = <<FailedCall("banChatMember", "u1")>>
        /\ ~banned["u1"]
        /\ ReplyTexts(p) = <<ReplyError>>

C17_WitnessUnbanFailed ==
    \E p \in Procs :
        /\ Moderating(p) /\ Ended(p) /\ Head(ran[p]) = "kick"
        /\ msg[p].reply = "u1"
        /\ muts[p] = << OkCall("banChatMember", "u1"), FailedCall("unbanChatMember", "u1") >>
        /\ banned["u1"]

\* C18: the gates are passed in the order no-reply, self-target, admin,
\* capability and the first that fails decides: a command that is not a reply
\* or that targets the bot issues no membership query; a non-admin invoker
\* gets "You are not an administrator" after exactly one query, the
\* invoker's; the bot's record is only asked for after an administrator
\* answer.
C18_GateOrder ==
    \A p \in Procs :
        (Moderating(p) /\ pc[p] # "run")
        => /\ msg[p].reply = NoReply
                => queries[p] = <<>> /\ ReplyTexts(p) = <<ReplyUsage(Head(ran[p]))>>
           /\ msg[p].reply = Bot
                => queries[p] = <<>> /\ ReplyTexts(p) = <<ReplySelf>>
           /\ InvokerIsNotAdmin(p)
                => /\ Len(queries[p]) = 1
                   /\ ReplyTexts(p) = <<ReplyNotAdmin>>
                   /\ muts[p] = <<>>
           /\ Len(queries[p]) >= 1 => queries[p][1].user = msg[p].from
           /\ Len(queries[p]) = 2
                => /\ queries[p][2].user = Bot
                   /\ queries[p][1].member.status \in {"administrator", "creator"}
           /\ Len(queries[p]) <= 2
           /\ (InvokerIsAdmin(p) /\ ~BotCapability(p, "true") /\ Ended(p)
                  /\ ~SomeQueryFailed(p))
                => ReplyTexts(p) = <<ReplyCantRestrict>> /\ muts[p] = <<>>

C18_Witness ==
    \E p \in Procs :
        /\ Moderating(p) /\ Ended(p) /\ Head(ran[p]) = "kick"
        /\ msg[p].reply = "u2" /\ msg[p].from = "u1"
        /\ InvokerStatus(p, "restricted")
        /\ Len(queries[p]) = 1
        /\ ReplyTexts(p) = <<ReplyNotAdmin>>

C18_WitnessSelfTarget ==
    \E p \in Procs :
        /\ Moderating(p) /\ Ended(p) /\ Head(ran[p]) = "kick"
        /\ msg[p].reply = Bot
        /\ queries[p] = <<>>
        /\ outcome[p] = "returned"

\* the command of slot p ended having applied its action
Completed(p) ==
    Ended(p) /\ outcome[p] = "returned" /\ muts[p] # <<>> /\ AllMutationsOk(p)

HasAuthor(p) == msg[p].reply \in Users \cup {Bot}

\* C20, as claimed: a kick / ban / unban issues at most one reply, and exactly
\* one whenever it ends without having completed its action and the
\* replied-to message has an author.
C20_Original ==
    \A p \in Procs :
        Moderating(p)
        => /\ Len(replies[p]) <= 1
           /\ (Ended(p) /\ ~Completed(p) /\ HasAuthor(p)) => Len(replies[p]) = 1

\* C20, amended: at most one reply; exactly one whenever the command ends
\* without having completed its action, the replied-to message has an author
\* and no getChatMember call failed; a command that ends on a failed
\* getChatMember call has issued no reply.
C20_OneReplyUnlessQueryFailed ==
    \A p \in Procs :
        Moderating(p)
        => /\ Len(replies[p]) <= 1
           /\ (Ended(p) /\ ~Completed(p) /\ HasAuthor(p) /\ ~SomeQueryFailed(p))
                => Len(replies[p]) = 1
           /\ (Ended(p) /\ SomeQueryFailed(p)) => replies[p] = <<>>

C20_Witness ==
    \E p \in Procs :
        /\ Moderating(p) /\ Ended(p) /\ ~Completed(p)
        /\ msg[p].reply = "u1"
        /\ InvokerIsAdmin(p) /\ BotCapability(p, "false")
        /\ Len(replies[p]) = 1

C20_WitnessQueryFailed ==
    \E p \in Procs :
        /\ Moderating(p) /\ Ended(p) /\ HasAuthor(p)
        /\ SomeQueryFailed(p)
        /\ outcome[p] = "threw"
        /\ replies[p] = <<>>

====
